---------------------------- MODULE Spec2Model ----------------------------
(***************************************************************************)
(* A model of the fractal generation engine of src/utils/                  *)
(* fractalAlgorithms.ts: the three recursive vector generators (KochCurve, *)
(* SierpinskiTriangle, FractalTree), the escape-time loops                 *)
(* (MandelbrotSet.isInSet, JuliaSet.isInSet) and the two rasterizers       *)
(* (MandelbrotSet.generate, JuliaSet.generate); and of the state of the    *)
(* viewer that drives it (FractalViewer, FractalControls).                 *)
(*                                                                         *)
(* Numbers.  The source computes in IEEE doubles.  The model computes      *)
(* exactly, and draws its inputs from lattices on which every intermediate *)
(* value is exactly representable:                                         *)
(*   - vector geometry lives in Z[sqrt 3] scaled by a fixed unit: a number *)
(*     is a record [r, s] standing for (r + s*sqrt(3)) / unit;             *)
(*   - the escape-time loops run on Gaussian integers (on which the        *)
(*     source's double arithmetic is exact as well);                       *)
(*   - the colour mapping runs on normalised rationals [n, d].             *)
(***************************************************************************)
EXTENDS Integers, Sequences, FiniteSets, TLC

VARIABLES
    \* ---- recursive vector generators (call-stack machine) ----
    call,       \* the top-level call: [fn, ..arguments.., iterations]
    stack,      \* activation records of generate, innermost last
    vpc,        \* "running" | "done"
    result,     \* the value returned by the top-level call (<<>> until done)
    calls,      \* number of invocations of generate so far (top-level included)
    nest,       \* greatest number of simultaneously active invocations so far
    \* ---- escape-time loop (isInSet) ----
    kind,       \* "mandelbrot" | "julia" | "none"
    c,          \* the constant c of z <- z^2 + c
    maxIterations,
    z,          \* the loop variable z
    iterations, \* the loop counter
    orbit,      \* history: the values z had at each evaluation of the loop test
    epc,        \* "loop" | "returned" | "idle"
    \* ---- rasterizers (generate) ----
    cfg,        \* the immutable arguments of generate
    order,      \* "sequential" (the source's loops) | "any" | "none"
    x, y,       \* the source's loop counters
    data,       \* imageData.data, a 0-indexed byte buffer
    computed,   \* the pixels whose loop body has run
    written,    \* per byte of data, how many times it has been stored
    rpc,        \* "loop" | "returned" | "idle"
    \* ---- viewer (FractalViewer's React state) ----
    fractalType, \* useState<FractalType>, "none" while no viewer is mounted
    config,      \* useState<FractalConfig>
    overCap      \* history: the iterations held before the last update were
                 \* above the cap of the type that update left selected

vecVars == <<call, stack, vpc, result, calls, nest>>
escVars == <<kind, c, maxIterations, z, iterations, orbit, epc>>
rasVars == <<cfg, order, x, y, data, computed, written, rpc>>
viewVars == <<fractalType, config, overCap>>
vars == <<vecVars, escVars, rasVars, viewVars>>

(***************************************************************************)
(* Bounds of the model.                                                    *)
(***************************************************************************)
MaxDepth == 3      \* greatest recursion depth passed to a vector generator
MaxIter == 4       \* greatest small maxIterations passed to an escape-time loop
Grid == 2          \* complex inputs are drawn from (-Grid..Grid)^2
MaxAnyOrderPixels == 8  \* largest raster whose pixels are also taken in any order

RECURSIVE Pow(_, _)
Pow(b, e) == IF e = 0 THEN 1 ELSE b * Pow(b, e - 1)

Abs(n) == IF n < 0 THEN -n ELSE n

(***************************************************************************)
(* Exact numbers r + s*sqrt(3), in units fixed by the family using them.   *)
(***************************************************************************)
Num(r, s) == [r |-> r, s |-> s]
NAdd(a, b) == [r |-> a.r + b.r, s |-> a.s + b.s]
NSub(a, b) == [r |-> a.r - b.r, s |-> a.s - b.s]
NScale(k, a) == [r |-> k * a.r, s |-> k * a.s]
\* a / k; the input lattices make every such division exact
NDiv(a, k) == [r |-> a.r \div k, s |-> a.s \div k]
\* a * sqrt(3):  (r + s*sqrt 3) * sqrt 3 = 3s + r*sqrt 3
NSqrt3(a) == [r |-> 3 * a.s, s |-> a.r]
NExact(a, k) == a.r % k = 0 /\ a.s % k = 0

Point(px, py) == [x |-> px, y |-> py]

(***************************************************************************)
(* The call-stack machine shared by the three recursive generators.  A     *)
(* frame holds the arguments of one invocation and the results of the      *)
(* recursive calls it has completed so far, in the order the source makes  *)
(* them.                                                                   *)
(***************************************************************************)
Frame(args) == [args |-> args, subs |-> <<>>]
Top == stack[Len(stack)]
Front(s) == SubSeq(s, 1, Len(s) - 1)

\* the innermost invocation calls generate(args)
Invoke(args) ==
    /\ stack' = Append(stack, Frame(args))
    /\ calls' = calls + 1
    /\ nest' = IF Len(stack) + 1 > nest THEN Len(stack) + 1 ELSE nest
    /\ UNCHANGED <<call, vpc, result, escVars, rasVars, viewVars>>

\* the innermost invocation returns v to its caller
Return(v) ==
    /\ IF Len(stack) = 1
         THEN /\ stack' = <<>>
              /\ result' = v
              /\ vpc' = "done"
         ELSE /\ stack' = [Front(stack) EXCEPT ![Len(stack) - 1].subs = Append(@, v)]
              /\ UNCHANGED <<result, vpc>>
    /\ UNCHANGED <<call, calls, nest, escVars, rasVars, viewVars>>

Running(fn) == vpc = "running" /\ stack # <<>> /\ Top.args.fn = fn

(***************************************************************************)
(* KochCurve.generate                                                      *)
(***************************************************************************)
KochUnit == Pow(6, MaxDepth)

KochArgs(p1, p2, it) == [fn |-> "koch", p1 |-> p1, p2 |-> p2, iterations |-> it]

KochIsBaseOne(it) == it = 1
\* iterations === 0
KochIsBase(it) == it = 0

KochBaseResult(p1, p2) == <<p1, p2>>

\* p3, p4, p5 of the source.  With d = (dx, dy), length = |d|/3 and
\* baseAngle = atan2(dy, dx), the apex offset
\*   length * (cos(baseAngle - pi/3), sin(baseAngle - pi/3))
\* is (dx/6 + sqrt(3)*dy/6, dy/6 - sqrt(3)*dx/6).
KochP3(p1, p2) ==
    Point(NAdd(p1.x, NDiv(NSub(p2.x, p1.x), 3)),
          NAdd(p1.y, NDiv(NSub(p2.y, p1.y), 3)))
KochP5(p1, p2) ==
    Point(NAdd(p1.x, NDiv(NScale(2, NSub(p2.x, p1.x)), 3)),
          NAdd(p1.y, NDiv(NScale(2, NSub(p2.y, p1.y)), 3)))
KochP4(p1, p2) ==
    LET dx == NSub(p2.x, p1.x)
        dy == NSub(p2.y, p1.y)
        p3 == KochP3(p1, p2)
    IN  Point(NAdd(p3.x, NDiv(NAdd(dx, NSqrt3(dy)), 6)),
              NAdd(p3.y, NDiv(NSub(dy, NSqrt3(dx)), 6)))

\* the four recursive calls, in source order
KochSubCalls(p1, p2) ==
    LET p3 == KochP3(p1, p2)
        p4 == KochP4(p1, p2)
        p5 == KochP5(p1, p2)
    IN  << <<p1, p3>>, <<p3, p4>>, <<p4, p5>>, <<p5, p2>> >>

\* s.slice(0, -1)
SliceLast(s) == IF Len(s) = 0 THEN <<>> ELSE SubSeq(s, 1, Len(s) - 1)

KochJoinNoSlice(segs) == segs[1] \o segs[2] \o segs[3] \o segs[4]

KochJoinSliceAll(segs) ==
    SliceLast(segs[1]) \o SliceLast(segs[2]) \o SliceLast(segs[3]) \o SliceLast(segs[4])
\* [...seg1.slice(0,-1), ...seg2.slice(0,-1), ...seg3.slice(0,-1), ...seg4]
KochJoin(segs) ==
    SliceLast(segs[1]) \o SliceLast(segs[2]) \o SliceLast(segs[3]) \o segs[4]

KochReturnBase ==
    /\ Running("koch")
    /\ KochIsBase(Top.args.iterations)
    /\ Return(KochBaseResult(Top.args.p1, Top.args.p2))

KochRecurse ==
    /\ Running("koch")
    /\ ~KochIsBase(Top.args.iterations)
    /\ Len(Top.subs) < 4
    /\ LET seg == KochSubCalls(Top.args.p1, Top.args.p2)[Len(Top.subs) + 1]
       IN  Invoke(KochArgs(seg[1], seg[2], Top.args.iterations - 1))

KochReturnJoin ==
    /\ Running("koch")
    /\ ~KochIsBase(Top.args.iterations)
    /\ Len(Top.subs) = 4
    /\ Return(KochJoin(Top.subs))

(***************************************************************************)
(* SierpinskiTriangle.generate                                             *)
(***************************************************************************)
SierpinskiArgs(p1, p2, p3, it) ==
    [fn |-> "sierpinski", p1 |-> p1, p2 |-> p2, p3 |-> p3, iterations |-> it]

SierpinskiIsBase(it) == it = 0

SierpinskiBaseResult(p1, p2, p3) == << <<p1, p2, p3>> >>

\* { x: (a.x + b.x) / 2, y: (a.y + b.y) / 2 }
Mid(a, b) == Point(NDiv(NAdd(a.x, b.x), 2), NDiv(NAdd(a.y, b.y), 2))

SierpinskiSubCallsWithCentre(p1, p2, p3) ==
    LET mid1 == Mid(p1, p2)
        mid2 == Mid(p2, p3)
        mid3 == Mid(p3, p1)
    IN  << <<p1, mid1, mid3>>, <<mid1, p2, mid2>>, <<mid3, mid2, p3>>,
           <<mid1, mid2, mid3>> >>
\* the three recursive calls, in source order
SierpinskiSubCalls(p1, p2, p3) ==
    LET mid1 == Mid(p1, p2)
        mid2 == Mid(p2, p3)
        mid3 == Mid(p3, p1)
    IN  << <<p1, mid1, mid3>>, <<mid1, p2, mid2>>, <<mid3, mid2, p3>> >>

RECURSIVE Concat(_)
\* [...s[1], ...s[2], ...]
Concat(ss) == IF ss = <<>> THEN <<>> ELSE ss[1] \o Concat(Tail(ss))

SierpinskiReturnBase ==
    /\ Running("sierpinski")
    /\ SierpinskiIsBase(Top.args.iterations)
    /\ Return(SierpinskiBaseResult(Top.args.p1, Top.args.p2, Top.args.p3))

SierpinskiRecurse ==
    /\ Running("sierpinski")
    /\ ~SierpinskiIsBase(Top.args.iterations)
    /\ LET todo == SierpinskiSubCalls(Top.args.p1, Top.args.p2, Top.args.p3)
       IN  /\ Len(Top.subs) < Len(todo)
           /\ LET t == todo[Len(Top.subs) + 1]
              IN  Invoke(SierpinskiArgs(t[1], t[2], t[3], Top.args.iterations - 1))

SierpinskiReturnJoin ==
    /\ Running("sierpinski")
    /\ ~SierpinskiIsBase(Top.args.iterations)
    /\ Len(Top.subs) = Len(SierpinskiSubCalls(Top.args.p1, Top.args.p2, Top.args.p3))
    /\ Return(Concat(Top.subs))

(***************************************************************************)
(* FractalTree.generate.  Lengths and coordinates are in units of          *)
(* 1/TreeUnit; angles are whole multiples of 30 degrees (pi/6), on which   *)
(* cos and sin take values in {0, +-1/2, +-sqrt(3)/2, +-1}.                *)
(***************************************************************************)
TreeUnit == 2 * Pow(10, MaxDepth)

TreeArgs(startPoint, angle, length, it, branchAngle) ==
    [fn |-> "tree", startPoint |-> startPoint, angle |-> angle, length |-> length,
     iterations |-> it, branchAngle |-> branchAngle]

\* 2*cos(k * 30 degrees) and 2*sin(k * 30 degrees)
Cos2(k) ==
    LET a == k % 12
    IN  CASE a = 0 -> Num(2, 0)
          [] a \in {1, 11} -> Num(0, 1)
          [] a \in {2, 10} -> Num(1, 0)
          [] a \in {3, 9} -> Num(0, 0)
          [] a \in {4, 8} -> Num(-1, 0)
          [] a \in {5, 7} -> Num(0, -1)
          [] a = 6 -> Num(-2, 0)
Sin2(k) == Cos2(k + 9)

TreeIsBaseInclusive(it, length) == it = 0 \/ length <= TreeUnit
\* iterations === 0 || length < 1
TreeIsBase(it, length) == it = 0 \/ length < TreeUnit

\* startPoint + length * (cos angle, sin angle)
TreeEndPoint(startPoint, angle, length) ==
    Point(NAdd(startPoint.x, NDiv(NScale(length, Cos2(angle)), 2)),
          NAdd(startPoint.y, NDiv(NScale(length, Sin2(angle)), 2)))

TreeNewLengthHalf(length) == (length * 5) \div 10
\* length * 0.7
TreeNewLength(length) == (length * 7) \div 10

TreeSubCallsSameDepth(a) ==
    LET endPoint == TreeEndPoint(a.startPoint, a.angle, a.length)
        newLength == TreeNewLength(a.length)
    IN  << TreeArgs(endPoint, a.angle - a.branchAngle, newLength,
                    a.iterations, a.branchAngle),
           TreeArgs(endPoint, a.angle + a.branchAngle, newLength,
                    a.iterations, a.branchAngle) >>
\* the two recursive calls, in source order: left (angle - branchAngle), right
TreeSubCalls(a) ==
    LET endPoint == TreeEndPoint(a.startPoint, a.angle, a.length)
        newLength == TreeNewLength(a.length)
    IN  << TreeArgs(endPoint, a.angle - a.branchAngle, newLength,
                    a.iterations - 1, a.branchAngle),
           TreeArgs(endPoint, a.angle + a.branchAngle, newLength,
                    a.iterations - 1, a.branchAngle) >>

\* [...branches, ...leftBranches, ...rightBranches]
TreeJoin(a, subs) ==
    << <<a.startPoint, TreeEndPoint(a.startPoint, a.angle, a.length)>> >>
        \o subs[1] \o subs[2]

TreeReturnBase ==
    /\ Running("tree")
    /\ TreeIsBase(Top.args.iterations, Top.args.length)
    /\ Return(<<>>)

TreeRecurse ==
    /\ Running("tree")
    /\ ~TreeIsBase(Top.args.iterations, Top.args.length)
    /\ Len(Top.subs) < 2
    /\ Invoke(TreeSubCalls(Top.args)[Len(Top.subs) + 1])

TreeReturnJoin ==
    /\ Running("tree")
    /\ ~TreeIsBase(Top.args.iterations, Top.args.length)
    /\ Len(Top.subs) = 2
    /\ Return(TreeJoin(Top.args, Top.subs))

(***************************************************************************)
(* The callers' inputs.                                                    *)
(***************************************************************************)
Depths == 0 .. MaxDepth

\* corner points of a square whose side is divisible by 6^MaxDepth
KochPoints ==
    {Point(Num(a * KochUnit, 0), Num(b * KochUnit, 0)) : a, b \in {0, 1}}

\* lengths 1/2, 7/10, 1, 2, 3 and 150 (the viewer's min(800, 600) * 0.25)
TreeLengths == {TreeUnit \div 2, (7 * TreeUnit) \div 10, TreeUnit, 2 * TreeUnit,
                3 * TreeUnit, 150 * TreeUnit}
TreeAngles == 0 .. 11
TreeBranchAngles == {1, 2}
\* the origin and the viewer's (w / 2, h * 0.9) of its 800 x 600 canvas
TreeStarts == {Point(Num(0, 0), Num(0, 0)),
               Point(Num(400 * TreeUnit, 0), Num(540 * TreeUnit, 0))}

VectorCalls ==
    {KochArgs(p1, p2, d) : p1 \in KochPoints, p2 \in KochPoints, d \in Depths}
    \cup
    {SierpinskiArgs(t[1], t[2], t[3], d) :
        t \in KochPoints \X KochPoints \X KochPoints, d \in Depths}
    \cup
    {TreeArgs(t[1], t[2], t[3], d, t[4]) :
        t \in TreeStarts \X TreeAngles \X TreeLengths \X TreeBranchAngles,
        d \in Depths}

EscapeIdle ==
    /\ kind = "none" /\ c = <<>> /\ maxIterations = 0 /\ z = <<>>
    /\ iterations = 0 /\ orbit = <<>> /\ epc = "idle"

RasterIdle ==
    /\ cfg = <<>> /\ order = "none" /\ x = 0 /\ y = 0
    /\ data = <<>> /\ computed = {} /\ written = <<>> /\ rpc = "idle"

ViewerIdle ==
    /\ fractalType = "none"
    /\ config = <<>>
    /\ overCap = FALSE

VectorIdle ==
    /\ call = <<>> /\ stack = <<>> /\ vpc = "idle" /\ result = <<>>
    /\ calls = 0 /\ nest = 0

InitVector ==
    /\ call \in VectorCalls
    /\ stack = <<Frame(call)>>
    /\ vpc = "running"
    /\ result = <<>>
    /\ calls = 1
    /\ nest = 1
    /\ EscapeIdle
    /\ RasterIdle
    /\ ViewerIdle

NextVector ==
    \/ KochReturnBase
    \/ KochRecurse
    \/ KochReturnJoin
    \/ SierpinskiReturnBase
    \/ SierpinskiRecurse
    \/ SierpinskiReturnJoin
    \/ TreeReturnBase
    \/ TreeRecurse
    \/ TreeReturnJoin

SpecVector == InitVector /\ [][NextVector]_vars

(***************************************************************************)
(* The same generators called with a depth far above what the viewer's     *)
(* slider allows.  The recursion is followed MaxDepth levels down, as far  *)
(* as the input lattice keeps the coordinates exact; a tree whose length   *)
(* floor stops it earlier runs to its return.                              *)
(***************************************************************************)
DeepDepths == {21}

DeepCalls ==
    {KochArgs(p1, p2, d) : p1 \in KochPoints, p2 \in KochPoints, d \in DeepDepths}
    \cup
    {SierpinskiArgs(t[1], t[2], t[3], d) :
        t \in KochPoints \X KochPoints \X KochPoints, d \in DeepDepths}
    \cup
    {TreeArgs(t[1], t[2], t[3], d, t[4]) :
        t \in TreeStarts \X TreeAngles
                \X {TreeUnit, 2 * TreeUnit, 150 * TreeUnit} \X TreeBranchAngles,
        d \in DeepDepths}

InitDeep ==
    /\ call \in DeepCalls
    /\ stack = <<Frame(call)>>
    /\ vpc = "running"
    /\ result = <<>>
    /\ calls = 1
    /\ nest = 1
    /\ EscapeIdle
    /\ RasterIdle
    /\ ViewerIdle

DeepKochRecurse == Len(stack) <= MaxDepth /\ KochRecurse

DeepSierpinskiRecurse == Len(stack) <= MaxDepth /\ SierpinskiRecurse

DeepTreeRecurse == Len(stack) <= MaxDepth /\ TreeRecurse

NextDeep ==
    \/ DeepKochRecurse
    \/ DeepSierpinskiRecurse
    \/ DeepTreeRecurse
    \/ TreeReturnBase
    \/ TreeReturnJoin

SpecDeep == InitDeep /\ [][NextDeep]_vars

(***************************************************************************)
(* The escape-time loops: MandelbrotSet.isInSet and JuliaSet.isInSet.      *)
(* Complex numbers are records [real, imag] of integers.                   *)
(***************************************************************************)
Complex(re, im) == [real |-> re, imag |-> im]

\* z.real * z.real + z.imag * z.imag
NormSq(w) == w.real * w.real + w.imag * w.imag

\* z <- z^2 + c
ComplexStep(w, k) ==
    Complex(w.real * w.real - w.imag * w.imag + k.real,
            2 * w.real * w.imag + k.imag)

LoopContinuesInclusive(it, max, w) == it < max /\ NormSq(w) <= 4
LoopContinuesShort(it, max, w) == it + 1 < max /\ NormSq(w) < 4
\* iterations < maxIterations && (z.real * z.real + z.imag * z.imag) < 4
LoopContinues(it, max, w) == it < max /\ NormSq(w) < 4

\* let z = { real: 0, imag: 0 }
MandelbrotStart == Complex(0, 0)

RECURSIVE EscapeLoop(_, _, _, _)
\* the while loop as a function: the value of iterations at exit
EscapeLoop(w, k, it, max) ==
    IF LoopContinues(it, max, w)
      THEN EscapeLoop(ComplexStep(w, k), k, it + 1, max)
      ELSE it

MandelbrotIsInSet(k, max) == EscapeLoop(MandelbrotStart, k, 0, max)
JuliaIsInSet(w, k, max) == EscapeLoop(w, k, 0, max)

\* the slider's cap for the raster fractals (getMaxIterations)
RasterCap == 100

GridPoints == {Complex(a, b) : a, b \in -Grid .. Grid}
IterationCaps == (0 .. MaxIter) \cup {50, RasterCap}

EscapeStep ==
    /\ epc = "loop"
    /\ LoopContinues(iterations, maxIterations, z)
    /\ z' = ComplexStep(z, c)
    /\ iterations' = iterations + 1
    /\ orbit' = Append(orbit, z')
    /\ UNCHANGED <<kind, c, maxIterations, epc, vecVars, rasVars, viewVars>>

\* return iterations
EscapeReturn ==
    /\ epc = "loop"
    /\ ~LoopContinues(iterations, maxIterations, z)
    /\ epc' = "returned"
    /\ UNCHANGED <<kind, c, maxIterations, z, iterations, orbit, vecVars, rasVars, viewVars>>

InitEscape ==
    /\ kind \in {"mandelbrot", "julia"}
    /\ c \in GridPoints
    /\ maxIterations \in IterationCaps
    /\ z \in IF kind = "mandelbrot" THEN {MandelbrotStart} ELSE GridPoints
    /\ iterations = 0
    /\ orbit = <<z>>
    /\ epc = "loop"
    /\ VectorIdle
    /\ RasterIdle
    /\ ViewerIdle

NextEscape ==
    \/ EscapeStep
    \/ EscapeReturn

SpecEscape == InitEscape /\ [][NextEscape]_vars

(***************************************************************************)
(* Exact rationals [n, d], d > 0, in lowest terms: the colour mapping and  *)
(* the pixel-to-plane mapping.                                             *)
(***************************************************************************)
RECURSIVE GCD(_, _)
GCD(a, b) == IF b = 0 THEN a ELSE GCD(b, a % b)

Q(n, d) ==
    LET sgn == IF d < 0 THEN -1 ELSE 1
        g == GCD(Abs(n), Abs(d))
    IN  [n |-> (sgn * n) \div g, d |-> (sgn * d) \div g]
QInt(k) == [n |-> k, d |-> 1]
QAdd(a, b) == Q(a.n * b.d + b.n * a.d, a.d * b.d)
QSub(a, b) == Q(a.n * b.d - b.n * a.d, a.d * b.d)
QMul(a, b) == Q(a.n * b.n, a.d * b.d)
QDiv(a, b) == Q(a.n * b.d, a.d * b.n)
QAbs(a) == [n |-> Abs(a.n), d |-> a.d]
QLt(a, b) == a.n * b.d < b.n * a.d
QLe(a, b) == a.n * b.d <= b.n * a.d
\* the integer part, rounding towards zero
QTrunc(a) == IF a.n >= 0 THEN a.n \div a.d ELSE -((-a.n) \div a.d)
\* a % m of the source language: the sign follows the dividend
QRem(a, m) == QSub(a, QMul(m, QInt(QTrunc(QDiv(a, m)))))
\* Math.round: the nearest integer, halves rounded up
QRound(a) == (2 * a.n + a.d) \div (2 * a.d)

\* MandelbrotSet.hslToRgb(h, s, l), h in degrees, s and l in percent
HslToRgb(h0, s0, l0) ==
    LET h == QDiv(h0, QInt(360))
        s == QDiv(s0, QInt(100))
        l == QDiv(l0, QInt(100))
        cc == QMul(QSub(QInt(1), QAbs(QSub(QMul(QInt(2), l), QInt(1)))), s)
        xx == QMul(cc, QSub(QInt(1),
                            QAbs(QSub(QRem(QMul(h, QInt(6)), QInt(2)), QInt(1)))))
        m == QSub(l, QDiv(cc, QInt(2)))
        zero == QInt(0)
        rgb == CASE QLe(zero, h) /\ QLt(h, Q(1, 6)) -> <<cc, xx, zero>>
                 [] QLe(Q(1, 6), h) /\ QLt(h, Q(1, 3)) -> <<xx, cc, zero>>
                 [] QLe(Q(1, 3), h) /\ QLt(h, Q(1, 2)) -> <<zero, cc, xx>>
                 [] QLe(Q(1, 2), h) /\ QLt(h, Q(2, 3)) -> <<zero, xx, cc>>
                 [] QLe(Q(2, 3), h) /\ QLt(h, Q(5, 6)) -> <<xx, zero, cc>>
                 [] QLe(Q(5, 6), h) /\ QLt(h, QInt(1)) -> <<cc, zero, xx>>
                 [] OTHER -> <<zero, zero, zero>>
    IN  [r |-> QRound(QMul(QAdd(rgb[1], m), QInt(255))),
         g |-> QRound(QMul(QAdd(rgb[2], m), QInt(255))),
         b |-> QRound(QMul(QAdd(rgb[3], m), QInt(255)))]

(***************************************************************************)
(* The rasterizers: MandelbrotSet.generate and JuliaSet.generate.          *)
(* cfg = [kind, width, height, zoom, offsetX, offsetY, c, maxIterations];  *)
(* zoom is a rational, the offsets are integers, c is the Julia constant.  *)
(***************************************************************************)
PlaneCoordUncentred(p, size, zoom, offset) ==
    QAdd(QDiv(QInt(p), QDiv(QMul(zoom, QInt(size)), QInt(4))), QInt(offset))
\* (p - size / 2) / (zoom * size / 4) + offset
PlaneCoord(p, size, zoom, offset) ==
    QAdd(QDiv(QSub(QInt(p), QDiv(QInt(size), QInt(2))),
              QDiv(QMul(zoom, QInt(size)), QInt(4))),
         QInt(offset))

\* { real, imag } of pixel (px, py)
PlanePoint(g, px, py) ==
    Complex(PlaneCoord(px, g.width, g.zoom, g.offsetX).n,
            PlaneCoord(py, g.height, g.zoom, g.offsetY).n)

\* every pixel of the raster maps to a Gaussian integer
OnLattice(g) ==
    /\ \A px \in 0 .. g.width - 1 : PlaneCoord(px, g.width, g.zoom, g.offsetX).d = 1
    /\ \A py \in 0 .. g.height - 1 : PlaneCoord(py, g.height, g.zoom, g.offsetY).d = 1

\* const iterations = this.isInSet(...)
PixelIterations(g, px, py) ==
    IF g.kind = "mandelbrot"
      THEN MandelbrotIsInSet(PlanePoint(g, px, py), g.maxIterations)
      ELSE JuliaIsInSet(PlanePoint(g, px, py), g.c, g.maxIterations)

\* the hue and palette of an escaped pixel
PixelHue(g, it) ==
    LET ratio == Q(it, g.maxIterations)
    IN  IF g.kind = "mandelbrot"
          THEN QRem(QMul(ratio, QInt(360)), QInt(360))
          ELSE QRem(QAdd(QMul(ratio, QInt(360)), QInt(180)), QInt(360))

\* data[index + 3] = 255, in both branches
PixelAlpha(it, max) == 255

\* the four bytes the loop body stores for pixel (px, py)
PixelColour(g, px, py) ==
    LET it == PixelIterations(g, px, py)
    IN  IF it = g.maxIterations
          THEN <<0, 0, 0, PixelAlpha(it, g.maxIterations)>>
          ELSE LET color == IF g.kind = "mandelbrot"
                              THEN HslToRgb(PixelHue(g, it), QInt(70), QInt(50))
                              ELSE HslToRgb(PixelHue(g, it), QInt(80), QInt(60))
               IN  <<color.r, color.g, color.b, PixelAlpha(it, g.maxIterations)>>

PixelIndexTransposed(g, px, py) == (px * g.width + py) * 4
\* const index = (y * width + x) * 4
PixelIndex(g, px, py) == (py * g.width + px) * 4

\* new ImageData(width, height).data: width * height * 4 zero bytes
ImageData(w, h) == [i \in 0 .. w * h * 4 - 1 |-> 0]

\* a store to a Uint8ClampedArray: clamped to 0..255, dropped out of range
Clamp(v) == IF v < 0 THEN 0 ELSE IF v > 255 THEN 255 ELSE v
Store(buf, i, v) == IF i \in DOMAIN buf THEN [buf EXCEPT ![i] = Clamp(v)] ELSE buf

StorePixelSpill(buf, index, rgba) ==
    Store(Store(Store(Store(Store(buf, index, rgba[1]), index + 1, rgba[2]),
                      index + 2, rgba[3]), index + 3, rgba[4]), index + 4, 0)
\* data[index] = ..; data[index + 1] = ..; data[index + 2] = ..; data[index + 3] = ..
StorePixel(buf, index, rgba) ==
    Store(Store(Store(Store(buf, index, rgba[1]), index + 1, rgba[2]),
                index + 2, rgba[3]), index + 3, rgba[4])

\* the loop body for pixel (px, py)
PixelBody(g, buf, px, py) == StorePixel(buf, PixelIndex(g, px, py), PixelColour(g, px, py))

RECURSIVE SequentialFrom(_, _, _, _)
\* the two nested loops as a function: the buffer they leave, from (px, py) on
SequentialFrom(g, buf, px, py) ==
    IF px >= g.width
      THEN buf
      ELSE LET nb == PixelBody(g, buf, px, py)
           IN  IF py + 1 < g.height
                 THEN SequentialFrom(g, nb, px, py + 1)
                 ELSE SequentialFrom(g, nb, px + 1, 0)

\* generate(...).data
Generate(g) == SequentialFrom(g, ImageData(g.width, g.height), 0, 0)

CountStores(cnt, index) ==
    [i \in DOMAIN cnt |-> IF i \in index .. index + 3 THEN cnt[i] + 1 ELSE cnt[i]]

Pixels(g) == (0 .. g.width - 1) \X (0 .. g.height - 1)

RunBody(px, py) ==
    /\ data' = PixelBody(cfg, data, px, py)
    /\ written' = CountStores(written, PixelIndex(cfg, px, py))
    /\ computed' = computed \cup {<<px, py>>}

\* one pass of the inner loop: for (x ..) for (y ..) { body }
RasterPixel ==
    /\ rpc = "loop"
    /\ order = "sequential"
    /\ x < cfg.width
    /\ y < cfg.height
    /\ RunBody(x, y)
    /\ IF y + 1 < cfg.height
         THEN y' = y + 1 /\ x' = x
         ELSE y' = 0 /\ x' = x + 1
    /\ UNCHANGED <<cfg, order, rpc, vecVars, escVars, viewVars>>

\* the same loop body, run for any pixel that has not been computed yet
RasterPixelAnyOrder ==
    /\ rpc = "loop"
    /\ order = "any"
    /\ \E p \in Pixels(cfg) \ computed : RunBody(p[1], p[2])
    /\ UNCHANGED <<cfg, order, x, y, rpc, vecVars, escVars, viewVars>>

\* return imageData
RasterReturn ==
    /\ rpc = "loop"
    /\ IF order = "sequential" THEN x >= cfg.width ELSE computed = Pixels(cfg)
    /\ rpc' = "returned"
    /\ UNCHANGED <<cfg, order, x, y, data, computed, written, vecVars, escVars, viewVars>>

RasterSizes == {1, 2, 4}
RasterZooms == {QInt(1), QInt(2)}
RasterOffsets == {<<0, 0>>, <<1, 0>>, <<0, -1>>, <<-1, 1>>}
JuliaConstants == {Complex(-1, 0), Complex(0, 1)}

RasterConfigs ==
    {g \in [kind : {"mandelbrot"}, width : RasterSizes, height : RasterSizes,
            zoom : RasterZooms, offsetX : {-1, 0, 1}, offsetY : {-1, 0, 1},
            c : {MandelbrotStart}, maxIterations : IterationCaps]
        \cup
          [kind : {"julia"}, width : RasterSizes, height : RasterSizes,
           zoom : RasterZooms, offsetX : {-1, 0, 1}, offsetY : {-1, 0, 1},
           c : JuliaConstants, maxIterations : IterationCaps] :
        /\ <<g.offsetX, g.offsetY>> \in RasterOffsets
        /\ OnLattice(g)}

InitRaster ==
    /\ cfg \in RasterConfigs
    /\ order \in {"sequential", "any"}
    /\ order = "any" => cfg.width * cfg.height <= MaxAnyOrderPixels
    /\ x = 0
    /\ y = 0
    /\ data = ImageData(cfg.width, cfg.height)
    /\ computed = {}
    /\ written = [i \in DOMAIN data |-> 0]
    /\ rpc = "loop"
    /\ VectorIdle
    /\ EscapeIdle
    /\ ViewerIdle

NextRaster ==
    \/ RasterPixel
    \/ RasterPixelAnyOrder
    \/ RasterReturn

SpecRaster == InitRaster /\ [][NextRaster]_vars

(***************************************************************************)
(* The engine as a whole: one call of one of its functions.                *)
(***************************************************************************)
(***************************************************************************)
(* The viewer: FractalViewer's state and the handlers FractalControls      *)
(* calls.  Each handler runs to completion and React applies the state     *)
(* updates it queued together, so a handler is one step.  handleSave reads *)
(* fractalType and writes neither state variable; it is not a step.        *)
(* Slider values are kept in units of the slider's step where the step is  *)
(* 0.1 (zoom, rotation).                                                   *)
(***************************************************************************)
VectorCap == 8
DefaultIterations == 3

\* fractalOptions: the values the type selector offers
FractalTypes == {"koch", "sierpinski", "mandelbrot", "julia", "tree"}

defaultConfig ==
    [iterations |-> DefaultIterations, zoom |-> 10, rotation |-> 0,
     offsetX |-> 0, offsetY |-> 0, color |-> "#FF4DDBFF"]

getMaxIterations(type) ==
    CASE type \in {"koch", "sierpinski", "tree"} -> VectorCap
      [] type \in {"mandelbrot", "julia"} -> RasterCap
      [] OTHER -> 10

\* the values a slider with the given min, max and step can report
SliderValues(min, max, step) == {min + k * step : k \in 0 .. ((max - min) \div step)}

\* the partial configurations the five sliders pass to onConfigChange; the
\* iterations slider over its whole range, the others at their ends and at
\* the default value
SliderChanges(type) ==
    {[iterations |-> v] : v \in SliderValues(1, getMaxIterations(type), 1)}
    \cup {[zoom |-> v] : v \in {1, 10, 50} \cap SliderValues(1, 50, 1)}
    \cup {[rotation |-> v] : v \in {0, 62} \cap SliderValues(0, 62, 1)}
    \cup {[offsetX |-> v] : v \in {-200, 0, 200} \cap SliderValues(-200, 200, 5)}
    \cup {[offsetY |-> v] : v \in {-200, 0, 200} \cap SliderValues(-200, 200, 5)}

\* { ...prev, ...newConfig }
Spread(prev, newConfig) ==
    [k \in DOMAIN prev |-> IF k \in DOMAIN newConfig THEN newConfig[k] ELSE prev[k]]

Mounted == fractalType \in FractalTypes

\* the history variable, as the update that ends in fractalType' leaves it
Noted == overCap' = (config.iterations > getMaxIterations(fractalType'))

handleConfigChange ==
    /\ Mounted
    /\ \E newConfig \in SliderChanges(fractalType) :
          config' = Spread(config, newConfig)
    /\ UNCHANGED fractalType
    /\ Noted
    /\ UNCHANGED <<vecVars, escVars, rasVars>>

handleFractalTypeChangeKeepsConfig ==
    /\ Mounted
    /\ \E type \in FractalTypes : fractalType' = type
    /\ UNCHANGED config
    /\ Noted
    /\ UNCHANGED <<vecVars, escVars, rasVars>>
\* setFractalType(type); setConfig(defaultConfig)
handleFractalTypeChange ==
    /\ Mounted
    /\ \E type \in FractalTypes : fractalType' = type
    /\ config' = defaultConfig
    /\ Noted
    /\ UNCHANGED <<vecVars, escVars, rasVars>>

handleReset ==
    /\ Mounted
    /\ config' = defaultConfig
    /\ UNCHANGED fractalType
    /\ Noted
    /\ UNCHANGED <<vecVars, escVars, rasVars>>

InitViewer ==
    /\ fractalType = "koch"
    /\ config = defaultConfig
    /\ overCap = FALSE
    /\ VectorIdle
    /\ EscapeIdle
    /\ RasterIdle

NextViewer ==
    \/ handleConfigChange
    \/ handleFractalTypeChange
    \/ handleReset

SpecViewer == InitViewer /\ [][NextViewer]_vars

Init == InitVector \/ InitEscape \/ InitRaster \/ InitViewer

Next == NextVector \/ NextEscape \/ NextRaster \/ NextViewer

Spec == Init /\ [][Next]_vars

(***************************************************************************)
(* Soundness of the exact arithmetic: every division the vector generators *)
(* perform on the model's inputs is exact (an invariant of SpecVector).    *)
(***************************************************************************)
ExactArithmetic ==
    \A i \in 1 .. Len(stack) :
        LET a == stack[i].args
        IN  CASE a.fn = "koch" ->
                   a.iterations > 0
                      => /\ NExact(NSub(a.p2.x, a.p1.x), 6)
                         /\ NExact(NSub(a.p2.y, a.p1.y), 6)
              [] a.fn = "sierpinski" ->
                   a.iterations > 0
                      => \A p, q \in {a.p1, a.p2, a.p3} :
                            NExact(NAdd(p.x, q.x), 2) /\ NExact(NAdd(p.y, q.y), 2)
              [] a.fn = "tree" ->
                   ~TreeIsBase(a.iterations, a.length)
                      => (a.length * 7) % 10 = 0 /\ a.length % 2 = 0

(***************************************************************************)
(* Properties of the vector generators (checked under SpecVector).         *)
(***************************************************************************)
VDone(fn) == vpc = "done" /\ call.fn = fn

\* C1 (as stated): for distinct p1, p2 and depth d, KochCurve.generate
\* returns exactly 3^d + 1 points.
C1_KochLengthAsClaimed ==
    (VDone("koch") /\ call.p1 # call.p2)
        => Len(result) = Pow(3, call.iterations) + 1

\* C1 (amended): for distinct p1, p2 and depth d >= 0, KochCurve.generate
\* returns exactly 4^d + 1 points (each level replaces a segment by four).
C1_KochLength ==
    (VDone("koch") /\ call.p1 # call.p2)
        => Len(result) = Pow(4, call.iterations) + 1

C1_Witness ==
    /\ VDone("koch") /\ call.p1 # call.p2
    /\ call.iterations = MaxDepth
    /\ Len(result) = Pow(4, MaxDepth) + 1

\* C2: for any triangle and depth d >= 0, SierpinskiTriangle.generate returns
\* exactly 3^d triangles, each a triple of points.
C2_SierpinskiCount ==
    VDone("sierpinski")
        => /\ Len(result) = Pow(3, call.iterations)
           /\ \A i \in 1 .. Len(result) :
                 /\ Len(result[i]) = 3
                 /\ \A j \in 1 .. 3 : DOMAIN result[i][j] = {"x", "y"}

C2_Witness ==
    /\ VDone("sierpinski")
    /\ call.iterations = MaxDepth
    /\ Cardinality({call.p1, call.p2, call.p3}) = 3
    /\ Len(result) = Pow(3, MaxDepth)

\* C3: at iterations = 0 KochCurve.generate and SierpinskiTriangle.generate
\* make no recursive call (the top-level invocation stays the only one) and
\* return exactly [p1, p2], respectively the one triangle [p1, p2, p3].
C3_BaseCase ==
    (call.fn \in {"koch", "sierpinski"} /\ call.iterations = 0)
        => /\ calls = 1
           /\ nest = 1
           /\ (VDone("koch") => result = <<call.p1, call.p2>>)
           /\ (VDone("sierpinski") => result = << <<call.p1, call.p2, call.p3>> >>)

C3_Witness ==
    /\ VDone("koch")
    /\ call.iterations = 0
    /\ call.p1 # call.p2
    /\ result = <<call.p1, call.p2>>
    /\ calls = 1

\* the termination test of FractalTree.generate, on the caller's arguments
TreeCallIsBase == call.iterations = 0 \/ call.length < TreeUnit

\* C9: FractalTree.generate returns the empty sequence, emitting no segment
\* and making no recursive call, whenever depth = 0 or length < 1; in every
\* other case its result is non-empty and starts with the segment
\* (start, start + length * (cos angle, sin angle)).
C9_TreeTermination ==
    call.fn = "tree"
        => IF TreeCallIsBase
             THEN /\ calls = 1
                  /\ nest = 1
                  /\ (vpc = "done" => result = <<>>)
             ELSE vpc = "done"
                    => /\ result # <<>>
                       /\ result[1] =
                            <<call.startPoint,
                              Point(NAdd(call.startPoint.x,
                                         NDiv(NScale(call.length, Cos2(call.angle)), 2)),
                                    NAdd(call.startPoint.y,
                                         NDiv(NScale(call.length, Sin2(call.angle)), 2)))>>

C9_Witness ==
    /\ VDone("tree")
    /\ call.iterations = MaxDepth
    /\ call.length < TreeUnit
    /\ result = <<>>
    /\ calls = 1

\* length * 0.7^(d-1) >= 1: the length floor never stops a call with depth > 0
FloorNeverTriggers(length, d) ==
    IF d = 0
      THEN 10 * length >= 7 * TreeUnit
      ELSE length * Pow(7, d - 1) >= TreeUnit * Pow(10, d - 1)

\* C10 (as stated): when the length floor never triggers, the number of
\* segments returned for depth d is 2^(d+1) - 1.
C10_TreeCountAsClaimed ==
    (VDone("tree") /\ FloorNeverTriggers(call.length, call.iterations))
        => Len(result) = Pow(2, call.iterations + 1) - 1

\* C10 (amended): for depth d >= 0, when the length floor never triggers
\* (d = 0, or length * 0.7^(d-1) >= 1) the number of segments returned is
\* 2^d - 1; when d >= 1 and the floor triggers earlier the count is smaller.
C10_TreeCount ==
    VDone("tree")
        => IF call.iterations = 0 \/ FloorNeverTriggers(call.length, call.iterations)
             THEN Len(result) = Pow(2, call.iterations) - 1
             ELSE Len(result) < Pow(2, call.iterations) - 1

C10_Witness ==
    /\ VDone("tree")
    /\ call.iterations = MaxDepth
    /\ FloorNeverTriggers(call.length, call.iterations)
    /\ call.length < 150 * TreeUnit
    /\ Len(result) = Pow(2, MaxDepth) - 1

(***************************************************************************)
(* Properties of the escape-time loops (checked under SpecEscape).         *)
(***************************************************************************)
\* orbit is the sequence z_0, z_1, ... of z <- z^2 + c from the start value
OrbitIsIteration ==
    /\ kind = "mandelbrot" => orbit[1] = [real |-> 0, imag |-> 0]
    /\ \A k \in 1 .. Len(orbit) - 1 :
          /\ orbit[k + 1].real =
                orbit[k].real * orbit[k].real - orbit[k].imag * orbit[k].imag + c.real
          /\ orbit[k + 1].imag = 2 * orbit[k].real * orbit[k].imag + c.imag

Escaped(k) == NormSq(orbit[k + 1]) >= 4

\* C4: the escape-time loop returns an integer r, 0 <= r <= maxIterations,
\* the number of z <- z^2 + c steps taken before |z|^2 >= 4 first holds;
\* r = maxIterations exactly when |z|^2 < 4 held before each of the
\* maxIterations steps.
C4_EscapeContract ==
    epc = "returned"
        => /\ iterations \in 0 .. maxIterations
           /\ OrbitIsIteration
           /\ Len(orbit) = iterations + 1
           /\ \A k \in 0 .. iterations - 1 : ~Escaped(k)
           /\ iterations < maxIterations => Escaped(iterations)
           /\ iterations = maxIterations
                <=> \A k \in 0 .. maxIterations - 1 :
                        k < Len(orbit) /\ ~Escaped(k)

C4_Witness ==
    /\ epc = "returned"
    /\ kind = "julia"
    /\ iterations = 2
    /\ maxIterations = MaxIter
    /\ NormSq(orbit[1]) > 0
    /\ NormSq(z) = 4

\* C5: MandelbrotSet.isInSet with c = (0, 0) and maxIterations = N returns
\* N, and z stays at (0, 0) through every step.
C5_OriginNeverEscapes ==
    (kind = "mandelbrot" /\ c = [real |-> 0, imag |-> 0])
        => /\ z = [real |-> 0, imag |-> 0]
           /\ (epc = "returned" => iterations = maxIterations)

C5_Witness ==
    /\ kind = "mandelbrot"
    /\ c = [real |-> 0, imag |-> 0]
    /\ epc = "returned"
    /\ maxIterations = RasterCap
    /\ iterations = RasterCap

(***************************************************************************)
(* Properties of the rasterizers (checked under SpecRaster).               *)
(***************************************************************************)
\* the four bytes of data at the row-major slot of pixel (px, py)
BytesAt(px, py) ==
    LET i == (py * cfg.width + px) * 4
    IN  <<data[i], data[i + 1], data[i + 2], data[i + 3]>>

DefaultView ==
    /\ cfg.kind = "mandelbrot"
    /\ cfg.width = cfg.height
    /\ cfg.zoom = [n |-> 1, d |-> 1]
    /\ cfg.offsetX = 0 /\ cfg.offsetY = 0
    /\ cfg.maxIterations >= 50

\* C6 (as stated): for every W >= 1 and maxIterations >= 50,
\* MandelbrotSet.generate(W, W, 1, 0, 0, maxIterations) colours the centre
\* pixel x = y = floor(W/2) opaque black.
C6_CentreBlackAsClaimed ==
    (rpc = "returned" /\ DefaultView)
        => BytesAt(cfg.width \div 2, cfg.width \div 2) = <<0, 0, 0, 255>>

\* C6 (amended): for every even W >= 2 and maxIterations >= 50,
\* MandelbrotSet.generate(W, W, 1, 0, 0, maxIterations) colours the centre
\* pixel x = y = W/2 opaque black: it maps to c = (0, 0) exactly.  (For odd
\* W the pixel maps to (-2/W, -2/W); at W = 1 that is (-2, -2), which
\* escapes after one step.)
C6_CentreBlack ==
    (rpc = "returned" /\ DefaultView /\ cfg.width % 2 = 0)
        => BytesAt(cfg.width \div 2, cfg.width \div 2) = <<0, 0, 0, 255>>

C6_Witness ==
    /\ rpc = "returned" /\ DefaultView
    /\ cfg.width = 4
    /\ BytesAt(2, 2) = <<0, 0, 0, 255>>
    /\ BytesAt(0, 0) # <<0, 0, 0, 255>>

\* C7: when generate returns, the buffer has exactly width*height*4 bytes,
\* every pixel has been stored exactly once at row-major index
\* (y*width + x)*4, and every alpha byte is 255.
C7_BufferComplete ==
    rpc = "returned"
        => /\ DOMAIN data = 0 .. cfg.width * cfg.height * 4 - 1
           /\ \A px \in 0 .. cfg.width - 1 : \A py \in 0 .. cfg.height - 1 :
                 /\ \A k \in 0 .. 3 : written[(py * cfg.width + px) * 4 + k] = 1
                 /\ data[(py * cfg.width + px) * 4 + 3] = 255

C7_Witness ==
    /\ rpc = "returned"
    /\ cfg.kind = "julia"
    /\ cfg.width = 4 /\ cfg.height = 2
    /\ order = "sequential"
    /\ \E px \in 0 .. 3 : \E py \in 0 .. 1 :
          BytesAt(px, py) \notin {<<0, 0, 0, 255>>, BytesAt(0, 0)}

\* C8: the raster computation is order-independent.  In every state, of the
\* sequential loops and of any other order of the pixel steps, each computed
\* pixel holds the colour that (x, y) and the immutable arguments determine
\* and every other pixel is untouched; hence any order leaves, at return,
\* the buffer of the sequential x-outer / y-inner loops.
C8_OrderIndependent ==
    rpc \in {"loop", "returned"}
        => /\ \A p \in Pixels(cfg) :
                 BytesAt(p[1], p[2]) =
                    IF p \in computed THEN PixelColour(cfg, p[1], p[2])
                                      ELSE <<0, 0, 0, 0>>
           /\ rpc = "returned" => data = Generate(cfg)

C8_Witness ==
    /\ rpc = "returned"
    /\ order = "any"
    /\ cfg.width = 4 /\ cfg.height = 2
    /\ data = Generate(cfg)
    /\ BytesAt(0, 0) # BytesAt(3, 1)

(***************************************************************************)
(* Termination of the vector generators (checked under SpecVector).        *)
(***************************************************************************)
\* the most invocations a call of depth d can make: 1 + b + ... + b^d
CallBudget(b, d) == (Pow(b, d + 1) - 1) \div (b - 1)

\* C11: for depth d >= 0 every recursion path of the three generators
\* reaches a base case after at most d nested calls: the k-th nested call
\* runs with depth d - k >= 0 and only an invocation with depth > 0 (and,
\* for the tree, length >= 1) has calls below it.  For the tree each nested
\* call runs with 0.7 times the length of its caller and an invocation with
\* length < 1 makes no call, whatever its depth.  The whole call makes a
\* bounded number of invocations and is never stuck before it returns.
C11_Terminates ==
    vpc \in {"running", "done"}
        => /\ \A i \in 1 .. Len(stack) :
                 /\ stack[i].args.iterations = call.iterations - (i - 1)
                 /\ stack[i].args.iterations >= 0
                 /\ i < Len(stack)
                      => /\ stack[i].args.iterations > 0
                         /\ call.fn = "tree"
                              => /\ stack[i].args.length >= TreeUnit
                                 /\ 10 * stack[i + 1].args.length
                                       = 7 * stack[i].args.length
           /\ Len(stack) <= nest
           /\ nest <= call.iterations + 1
           /\ calls <= CallBudget(CASE call.fn = "koch" -> 4
                                    [] call.fn = "sierpinski" -> 3
                                    [] call.fn = "tree" -> 2,
                                  call.iterations)
           /\ vpc = "running" => ENABLED NextVector

\* a tree call of full depth that the length floor, not the depth, stops
C11_Witness ==
    /\ VDone("tree")
    /\ call.iterations = MaxDepth
    /\ call.length = 2 * TreeUnit
    /\ nest = 3
    /\ nest < call.iterations + 1
    /\ Len(result) = 3

(***************************************************************************)
(* Depth ceiling (checked under SpecDeep).                                 *)
(***************************************************************************)
\* C12: a vector generator called with depth > 20 ends in an error outcome
\* without performing the recursion: the top-level invocation makes no
\* recursive call and returns no result.
C12_DeepCallRejected ==
    (call.fn \in {"koch", "sierpinski", "tree"} /\ call.iterations > 20)
        => /\ calls = 1
           /\ vpc # "done"

(***************************************************************************)
(* Structure of the Koch output (checked under SpecVector).                *)
(***************************************************************************)
\* the step is the return of the innermost invocation of KochCurve.generate
KochReturns ==
    /\ vpc = "running"
    /\ stack # <<>>
    /\ Top.args.fn = "koch"
    /\ Len(stack') = Len(stack) - 1

\* the value that invocation hands to its caller
KochReturned ==
    IF Len(stack) = 1
      THEN result'
      ELSE LET subs == stack'[Len(stack) - 1].subs IN subs[Len(subs)]

RECURSIVE SeamOffset(_, _)
\* the number of output points that precede sub-result k
SeamOffset(S, k) == IF k = 1 THEN 0 ELSE SeamOffset(S, k - 1) + Len(S[k - 1]) - 1

Occurrences(v, p) == Cardinality({j \in 1 .. Len(v) : v[j] = p})

\* C13: for every depth d >= 0 the output of KochCurve.generate(p1, p2, d) starts
\* with p1 and ends with p2; for d >= 1 it is the four sub-results for (p1,p3),
\* (p3,p4), (p4,p5), (p5,p2) at depth d-1 in that order, the last point of the
\* first three dropped, so that each junction p3, p4, p5 is the end of one
\* sub-result and the start of the next and is emitted once, at the seam.
C13_KochSeams ==
    [][KochReturns =>
         LET a == Top.args
             S == Top.subs
             v == KochReturned
             J == <<KochP3(a.p1, a.p2), KochP4(a.p1, a.p2), KochP5(a.p1, a.p2)>>
             E == <<a.p1>> \o J \o <<a.p2>>
         IN  /\ Len(v) >= 2
             /\ v[1] = a.p1
             /\ v[Len(v)] = a.p2
             /\ a.iterations >= 1
                  => /\ Len(S) = 4
                     /\ Len(v) = SeamOffset(S, 4) + Len(S[4])
                     /\ \A k \in 1 .. 4 :
                           /\ Len(S[k]) >= 2
                           /\ S[k][1] = E[k]
                           /\ S[k][Len(S[k])] = E[k + 1]
                           /\ \A j \in 1 .. Len(S[k]) - (IF k < 4 THEN 1 ELSE 0) :
                                 v[SeamOffset(S, k) + j] = S[k][j]
                     /\ \A k \in 1 .. 3 :
                           /\ v[SeamOffset(S, k + 1) + 1] = J[k]
                           /\ a.p1 # a.p2 => Occurrences(v, J[k]) = 1
    ]_vars

C13_Witness ==
    /\ VDone("koch")
    /\ call.iterations = MaxDepth
    /\ call.p1 # call.p2
    /\ result[1] = call.p1
    /\ result[Len(result)] = call.p2
    /\ \A q \in {KochP3(call.p1, call.p2), KochP4(call.p1, call.p2),
                 KochP5(call.p1, call.p2)} : Occurrences(result, q) = 1

(***************************************************************************)
(* The viewer's iteration count (checked under SpecViewer).                *)
(***************************************************************************)
\* C14: in every state the viewer reaches through slider changes, type changes
\* and resets, the configured iteration count is an integer with
\* 1 <= iterations <= the cap of the selected type (8 for koch, sierpinski
\* and tree, 100 for mandelbrot and julia).
C14_IterationsWithinCap ==
    Mounted
        => /\ config.iterations \in Int
           /\ 1 <= config.iterations
           /\ config.iterations <= getMaxIterations(fractalType)
           /\ getMaxIterations(fractalType) =
                 IF fractalType \in {"mandelbrot", "julia"} THEN 100 ELSE 8

\* a type change from a raster type holding more than 8 iterations to a vector
\* type has just left the default configuration
C14_Witness ==
    /\ overCap
    /\ fractalType \in {"koch", "sierpinski", "tree"}
    /\ config = defaultConfig
    /\ config.iterations = 3

=============================================================================
